---- MODULE Spec2Model ----
(***************************************************************************)
(* Sx128x radio driver (src/src/lib.rs): the driver object (retained       *)
(* Config and recorded PacketType), the chip behind the Hal, and the bus   *)
(* transactions every driver operation issues.                             *)
(*                                                                         *)
(* A driver operation is one action.  Its body is the Rust function,       *)
(* written as a chain of operators over a "machine" record                 *)
(*   [config, packet_type, hal, log, err, fail, val]                       *)
(* where log is the sequence of bus transactions of the call, err is the   *)
(* Result so far ("Ok" or the error), val the value of an Ok result and    *)
(* fail the index of the bus transaction that the Hal fails (0: none).     *)
(* The `?` operator of the source is the rule that every operator is the   *)
(* identity once err is not "Ok".                                          *)
(***************************************************************************)
EXTENDS Integers, Sequences, FiniteSets, TLC

VARIABLES
    config,         \* Sx128x.config: the retained Config
    packet_type,    \* Sx128x.packet_type: the recorded PacketType
    hal,            \* the chip behind Sx128x.hal
    built,          \* TRUE once Sx128x::new has returned Ok
    op,             \* name of the last operation
    args,           \* its arguments
    result,         \* [err, val]: its Result
    trace,          \* the bus transactions it issued, in order
    before,         \* [config, packet_type]: the driver fields when it was called
    supplied        \* rf_timeout of the last Config a successful configure received

vars == <<config, packet_type, hal, built, op, args, result, trace, before, supplied>>

-----------------------------------------------------------------------------
(* Bounds of the model *)

\* longest payload handed to start_transmit that fits a byte
MaxDataLen == 1
\* the chip ends an operation only while fewer than MaxPending interrupt
\* flags wait to be read
MaxPending == 1
\* longest sync word handed to set_syncword
MaxSyncLen == 6

-----------------------------------------------------------------------------
(* Program constants *)

\* FREQ_MIN and FREQ_MAX are u32 Hz values above 2^31; a frequency is kept as
\* [mhz, hz] (mhz * 1_000_000 + hz Hz) and compared lexicographically.
FREQ_MIN == [mhz |-> 2400, hz |-> 0]
FREQ_MAX == [mhz |-> 2500, hz |-> 0]

FreqLt(a, b) == a.mhz < b.mhz \/ (a.mhz = b.mhz /\ a.hz < b.hz)

\* known-good firmware version checked by Sx128x::new (0xA9B5)
FIRMWARE_OK == 43445

PowerMin == -18
PowerMax == 13
PowerOffset == 18

Families == {"Gfsk", "LoRa", "Ranging", "Flrc", "Ble"}
PacketTypes == Families \cup {"None"}

\* PacketType as u8
PacketTypeByte(t) ==
    CASE t = "Gfsk" -> 0
      [] t = "LoRa" -> 1
      [] t = "Ranging" -> 2
      [] t = "Flrc" -> 3
      [] t = "Ble" -> 4
      [] OTHER -> 15

ByteToPacketType(b) ==
    IF \E t \in Families : PacketTypeByte(t) = b
    THEN CHOOSE t \in Families : PacketTypeByte(t) = b
    ELSE "None"

\* PacketType::from(&Channel) and PacketType::from(&Modem): the family tag
PacketTypeOfChannel(ch) == ch.fam
PacketTypeOfModem(md) == md.fam

\* Irq bit positions (bitflags Irq)
IrqBit(f) ==
    CASE f = "TX_DONE" -> 1
      [] f = "RX_DONE" -> 2
      [] f = "SYNCWORD_VALID" -> 4
      [] f = "SYNCWORD_ERROR" -> 8
      [] f = "HEADER_VALID" -> 16
      [] f = "HEADER_ERROR" -> 32
      [] f = "CRC_ERROR" -> 64
      [] f = "RX_TX_TIMEOUT" -> 16384
      [] f = "PREAMBLE_DETECTED" -> 32768

AllIrqFlags == {"TX_DONE", "RX_DONE", "SYNCWORD_VALID", "SYNCWORD_ERROR", "HEADER_VALID",
                "HEADER_ERROR", "CRC_ERROR", "RX_TX_TIMEOUT", "PREAMBLE_DETECTED"}

RECURSIVE SumBits(_)
SumBits(S) == IF S = {} THEN 0
              ELSE LET f == CHOOSE x \in S : TRUE IN IrqBit(f) + SumBits(S \ {f})

\* Irq::bits() as the two bytes on the bus, and Irq::from_bits of two bytes
IrqBytes(S) == << SumBits(S) \div 256, SumBits(S) % 256 >>
IrqOfBytes(d) == { f \in AllIrqFlags : ((d[1] * 256 + d[2]) \div IrqBit(f)) % 2 = 1 }

\* Register addresses (Registers as u16)
LrFirmwareVersionMsb == 339
LrSyncWordBaseAddress1 == 2510
LrSyncWordBaseAddress2 == 2515
LrSyncWordBaseAddress3 == 2520
LrSyncWordTolerance == 2509
LrPayloadLength == 2305

\* LoRa channel defaults (device/lora.rs)
Sf7 == 112
Bw0400 == 38
Cr4_5 == 1


-----------------------------------------------------------------------------
(* The chip behind the Hal *)

\* State as the mode bits of the status byte (State::try_from)
StateByte(st) ==
    CASE st = "StandbyRc" -> 2
      [] st = "StandbyXosc" -> 3
      [] st = "Fs" -> 4
      [] st = "Rx" -> 5
      [] st = "Tx" -> 6
      [] OTHER -> 0

\* payload length byte of a SetPacketParams block, by the chip's packet type
PayloadLenOf(t, data, old) ==
    IF t \in {"LoRa", "Ranging"} THEN data[3]
    ELSE IF t \in {"Gfsk", "Flrc"} THEN data[5]
    ELSE old

\* the chip after reset: StandbyRC, packet type GFSK, registers at their defaults
ChipReset(chip) ==
    [chip EXCEPT !.state = "StandbyRc", !.packet_type = "Gfsk", !.regulator = 0,
                 !.tx_power = 31, !.payload_len = 0, !.irq = {}, !.sync_tol = 132]

\* effect of a successful write transaction on the chip
ChipApply(chip, kind, cmd, addr, data) ==
    IF kind = "reset" THEN ChipReset(chip)
    ELSE IF kind = "write_regs" /\ addr = LrSyncWordTolerance
    THEN [chip EXCEPT !.sync_tol = data[1]]
    ELSE IF kind # "write_cmd" THEN chip
    ELSE CASE cmd = "SetStandby" ->
                [chip EXCEPT !.state = IF data[1] = 0 THEN "StandbyRc" ELSE "StandbyXosc"]
           [] cmd = "SetTx" -> [chip EXCEPT !.state = "Tx"]
           [] cmd = "SetRx" -> [chip EXCEPT !.state = "Rx"]
           [] cmd = "SetFs" -> [chip EXCEPT !.state = "Fs"]
           [] cmd = "SetSleep" -> [chip EXCEPT !.state = "Sleep"]
           [] cmd = "SetPacketType" -> [chip EXCEPT !.packet_type = ByteToPacketType(data[1])]
           [] cmd = "SetRegulatorMode" -> [chip EXCEPT !.regulator = data[1]]
           [] cmd = "SetTxParams" -> [chip EXCEPT !.tx_power = data[1]]
           [] cmd = "SetPacketParams" ->
                [chip EXCEPT !.payload_len = PayloadLenOf(chip.packet_type, data, @)]
           [] cmd = "ClearIrqStatus" -> [chip EXCEPT !.irq = @ \ IrqOfBytes(data)]
           [] OTHER -> chip

-----------------------------------------------------------------------------
(* Bus transactions (base::Hal) *)

Machine(cfg, pt, chip, fail) ==
    [config |-> cfg, packet_type |-> pt, hal |-> chip, log |-> <<>>, err |-> "Ok",
     fail |-> fail, val |-> 0]

Ok(m) == m.err = "Ok"

Fail(m, e) == IF Ok(m) THEN [m EXCEPT !.err = e] ELSE m

\* One bus transaction: nothing once the call has failed; otherwise it is
\* logged with the chip state it was issued in, and it either fails (the
\* chip is left as it was and the call gets the bus error) or takes effect.
\* cmd is the command's name ("" for a register or buffer access) and addr
\* the register address or buffer offset (0 for a command).
Xfer(m, kind, cmd, addr, data) ==
    IF ~Ok(m) THEN m
    ELSE LET fails == (Len(m.log) + 1 = m.fail)
             e == [kind |-> kind, cmd |-> cmd, addr |-> addr, data |-> data,
                   ok |-> ~fails, state |-> m.hal.state]
         IN [m EXCEPT !.log = Append(@, e),
                      !.err = IF fails THEN "Comms" ELSE "Ok",
                      !.hal = IF fails THEN @ ELSE ChipApply(@, kind, cmd, addr, data)]

\* hal.write_cmd(cmd as u8, data)
write_cmd(m, cmd, data) == Xfer(m, "write_cmd", cmd, 0, data)
\* hal.read_cmd(cmd as u8, buf): the bytes read are logged as data
read_cmd(m, cmd, data) == Xfer(m, "read_cmd", cmd, 0, data)
\* hal.write_regs / hal.write_reg and hal.read_regs / hal.read_reg
write_regs(m, addr, data) == Xfer(m, "write_regs", "", addr, data)
read_regs(m, addr, data) == Xfer(m, "read_regs", "", addr, data)
\* hal.write_buff(offset, data): only the length of the payload is kept
write_buff(m, offset, len) == Xfer(m, "write_buff", "", offset, <<len>>)
\* hal.read_buff(offset, buf): only the length of the slice read is kept
read_buff(m, offset, len) == Xfer(m, "read_buff", "", offset, <<len>>)
\* hal.reset()
hal_reset(m) == Xfer(m, "reset", "", 0, <<>>)

-----------------------------------------------------------------------------
(* Configuration values (device::Config, Channel, Modem) *)

\* Channel: the family tag, the frequency and the modulation parameters as
\* the bytes their enums cast to (fields of other families are 0)
MkChannel(fam, freq) ==
    [fam |-> fam, freq |-> freq,
     sf |-> IF fam \in {"LoRa", "Ranging"} THEN Sf7 ELSE 0,
     bw |-> IF fam \in {"LoRa", "Ranging"} THEN Bw0400 ELSE 0,
     cr |-> IF fam \in {"LoRa", "Ranging", "Flrc"} THEN Cr4_5 ELSE 0,
     br_bw |-> IF fam \in {"Gfsk", "Flrc", "Ble"} THEN 4 ELSE 0,
     mi |-> IF fam \in {"Gfsk", "Ble"} THEN 1 ELSE 0,
     ms |-> IF fam \in {"Gfsk", "Flrc", "Ble"} THEN 16 ELSE 0]

\* Modem: the family tag and the packet parameters as the bytes they cast to;
\* sync_word_value is <<>> for None and the four bytes for Some
MkModem(fam, len, header, sync) ==
    [fam |-> fam, preamble_length |-> 8, sync_word_length |-> 4, sync_word_match |-> 16,
     header_type |-> header, payload_length |-> len, crc_mode |-> 32, whitening |-> 8,
     invert_iq |-> 64, connection_state |-> 0, crc_field |-> 16, packet_type |-> 0,
     sync_word_value |-> sync]

\* Modem::set_payload_len
set_payload_len(md, len) ==
    IF md.fam \in {"Ble", "None"} THEN md ELSE [md EXCEPT !.payload_length = len]

\* Timeout::step() as u8 and Timeout::count()
TimeoutBytes(t) == << t.step, (t.count \div 256) % 256, t.count % 256 >>

\* Config::freq_to_steps(f) as u32: f / (52 MHz / 2^18)
FreqToSteps(f) == (f.mhz * 262144) \div 52 + (f.hz * 1024) \div 203125


-----------------------------------------------------------------------------
(* Sx128x: configuration *)

\* radio::State::set_state
set_state(m, state) ==
    LET command == CASE state = "Tx" -> "SetTx"
                     [] state = "Rx" -> "SetRx"
                     [] state = "Fs" -> "SetFs"
                     [] state \in {"StandbyRc", "StandbyXosc"} -> "SetStandby"
                     [] state = "Sleep" -> "SetSleep"
    IN write_cmd(m, command, <<0>>)

\* the match of get_state on the mode bits of the status byte
state_of_mode(m, mode) ==
    IF ~Ok(m) THEN m
    ELSE IF mode \notin {0, 2, 3, 4, 5, 6} THEN Fail(m, "InvalidResponse")
    ELSE [m EXCEPT !.val = mode]

\* radio::State::get_state: the status byte carries the mode in bits 7..5
get_state(m) ==
    LET d == StateByte(m.hal.state) * 32 + 4
    IN state_of_mode(read_cmd(m, "GetStatus", <<d>>), (d \div 32) % 8)

\* Ok(v): the value of a call that has not failed
OkVal(m, v) == IF Ok(m) THEN [m EXCEPT !.val = v] ELSE m

\* Sx128x::firmware_version; fw is the version the chip reports
firmware_version(m, fw) ==
    LET d == << fw \div 256, fw % 256 >>
    IN OkVal(read_regs(m, LrFirmwareVersionMsb, d), d[1] * 256 + d[2])

\* Sx128x::set_frequency
set_frequency(m, f) ==
    LET c == FreqToSteps(f)
    IN write_cmd(m, "SetRfFrequency", << (c \div 65536) % 256, (c \div 256) % 256, c % 256 >>)

Max(a, b) == IF a > b THEN a ELSE b
Min(a, b) == IF a < b THEN a ELSE b

\* ClampPower without the limits
ClampPower_unbounded(power) == power

\* the power limit of set_power_ramp: max(power, -18) then min(.., 13)
ClampPower(power) == Min(Max(power, PowerMin), PowerMax)

\* Sx128x::set_power_ramp: the retained pa_config is assigned before the write
set_power_ramp(m, power, ramp) ==
    IF ~Ok(m) THEN m
    ELSE LET p == ClampPower(power)
             power_reg == (p + PowerOffset) % 256
             m1 == [m EXCEPT !.config.pa_config.power = p,
                             !.config.pa_config.ramp_time = ramp]
         IN write_cmd(m1, "SetTxParams", << power_reg, ramp >>)

\* Sx128x::set_irq_mask
set_irq_mask(m, irq) == write_cmd(m, "SetDioIrqParams", IrqBytes(irq))

\* Sx128x::set_regulator_mode
set_regulator_mode(m, r) == write_cmd(m, "SetRegulatorMode", <<r>>)

\* Sx128x::set_buff_base_addr
set_buff_base_addr(m, tx, rx) == write_cmd(m, "SetBufferBaseAddress", <<tx, rx>>)

\* SyncwordSlot with the index of a GFSK sync word not looked at
SyncwordSlot_gfsk_any_index(pt, index) ==
    CASE pt = "Gfsk" -> << LrSyncWordBaseAddress1, 5 >>
      [] pt = "Flrc" /\ index \in {1, 2, 3} -> << LrSyncWordBaseAddress1 + 1, 4 >>
      [] pt = "Ble" -> << LrSyncWordBaseAddress1 + 1, 4 >>
      [] OTHER -> << >>

\* the (packet type, index) table of set_syncword: <<addr, len>>, or <<>> outside it
SyncwordSlot(pt, index) ==
    CASE pt = "Gfsk" /\ index = 1 -> << LrSyncWordBaseAddress1, 5 >>
      [] pt = "Gfsk" /\ index = 2 -> << LrSyncWordBaseAddress2, 5 >>
      [] pt = "Gfsk" /\ index = 3 -> << LrSyncWordBaseAddress3, 5 >>
      [] pt = "Flrc" /\ index = 1 -> << LrSyncWordBaseAddress1 + 1, 4 >>
      [] pt = "Flrc" /\ index = 2 -> << LrSyncWordBaseAddress2 + 1, 4 >>
      [] pt = "Flrc" /\ index = 3 -> << LrSyncWordBaseAddress3 + 1, 4 >>
      [] pt = "Ble" -> << LrSyncWordBaseAddress1 + 1, 4 >>
      [] OTHER -> << >>

\* flrc_sync_tolerance with the other nibble masked (r & 0x0F)
flrc_sync_tolerance_high_cleared(m) ==
    IF Ok(m) /\ m.packet_type = "Flrc"
    THEN write_regs(read_regs(m, LrSyncWordTolerance, << m.hal.sync_tol >>),
                    LrSyncWordTolerance, << m.hal.sync_tol % 16 >>)
    ELSE m

\* the FLRC branch of set_syncword: the sync word tolerance is read, its low
\* nibble cleared and the byte written back
flrc_sync_tolerance(m) ==
    IF Ok(m) /\ m.packet_type = "Flrc"
    THEN write_regs(read_regs(m, LrSyncWordTolerance, << m.hal.sync_tol >>),
                    LrSyncWordTolerance, << m.hal.sync_tol - (m.hal.sync_tol % 16) >>)
    ELSE m

\* Sx128x::set_syncword
set_syncword(m, index, value) ==
    IF ~Ok(m) THEN m
    ELSE LET slot == SyncwordSlot(m.packet_type, index)
         IN IF slot = << >> THEN Fail(m, "InvalidConfiguration")
            ELSE IF Len(value) # slot[2] THEN Fail(m, "InvalidConfiguration")
            ELSE flrc_sync_tolerance(write_regs(m, slot[1], value))


\* PacketTypeChanged with the comparison lost: the type is written every time
PacketTypeChanged_always(m, pt) == TRUE

\* the test `self.packet_type != packet_type` of set_channel and configure_modem
PacketTypeChanged(m, pt) == m.packet_type # pt

\* record_packet_type with the assignment left out
record_packet_type_not_assigned(m, pt) == m

\* `self.packet_type = packet_type` after the SetPacketType write
record_packet_type(m, pt) == IF Ok(m) THEN [m EXCEPT !.packet_type = pt] ELSE m

\* update_packet_type with the Result of the SetPacketType write dropped
update_packet_type_error_dropped(m, pt) ==
    IF ~Ok(m) \/ ~PacketTypeChanged(m, pt) THEN m
    ELSE [write_cmd(m, "SetPacketType", << PacketTypeByte(pt) >>)
             EXCEPT !.err = "Ok", !.packet_type = pt]

\* the SetPacketType write of set_channel and configure_modem, with the
\* record of the new type once the write has succeeded
update_packet_type(m, pt) ==
    IF ~Ok(m) \/ ~PacketTypeChanged(m, pt) THEN m
    ELSE record_packet_type(write_cmd(m, "SetPacketType", << PacketTypeByte(pt) >>), pt)

\* the SetPacketParams block of configure_modem
PacketParams(c) ==
    CASE c.fam \in {"Gfsk", "Flrc"} ->
            << c.preamble_length, c.sync_word_length, c.sync_word_match, c.header_type,
               c.payload_length, c.crc_mode, c.whitening >>
      [] c.fam \in {"LoRa", "Ranging"} ->
            << c.preamble_length, c.header_type, c.payload_length, c.crc_mode,
               c.invert_iq, 0, 0 >>
      [] c.fam = "Ble" ->
            << c.connection_state, c.crc_field, c.packet_type, c.whitening, 0, 0, 0 >>
      [] OTHER -> << 0, 0, 0, 0, 0, 0, 0 >>

\* the `if let Modem::Flrc(c)` of configure_modem: a sync word is written
flrc_sync_word(m, md) ==
    IF md.fam = "Flrc" /\ md.sync_word_value # << >>
    THEN set_syncword(m, 1, md.sync_word_value)
    ELSE m

\* Sx128x::configure_modem
configure_modem(m, md) ==
    LET m1 == update_packet_type(m, PacketTypeOfModem(md))
        m2 == write_cmd(m1, "SetPacketParams", PacketParams(md))
    IN flrc_sync_word(m2, md)

\* the SetModulationParams block of set_channel
ModulationParams(ch) ==
    CASE ch.fam \in {"Gfsk", "Ble"} -> << ch.br_bw, ch.mi, ch.ms >>
      [] ch.fam \in {"LoRa", "Ranging"} -> << ch.sf, ch.bw, ch.cr >>
      [] ch.fam = "Flrc" -> << ch.br_bw, ch.cr, ch.ms >>

\* the range test of set_channel
FrequencyInvalid(freq) == FreqLt(freq, FREQ_MIN) \/ FreqLt(FREQ_MAX, freq)

\* set_channel with the modulation parameters written before the frequency
set_channel_modulation_first(m, ch) ==
    IF ~Ok(m) THEN m
    ELSE IF FrequencyInvalid(ch.freq) THEN Fail(m, "InvalidFrequency")
    ELSE LET m1 == write_cmd(m, "SetModulationParams", ModulationParams(ch))
             m2 == update_packet_type(m1, PacketTypeOfChannel(ch))
         IN set_frequency(m2, ch.freq)

\* radio::Channel::set_channel
set_channel(m, ch) ==
    IF ~Ok(m) THEN m
    ELSE IF FrequencyInvalid(ch.freq) THEN Fail(m, "InvalidFrequency")
    ELSE LET m1 == set_frequency(m, ch.freq)
             m2 == update_packet_type(m1, PacketTypeOfChannel(ch))
         IN write_cmd(m2, "SetModulationParams", ModulationParams(ch))

\* FamiliesAccepted looking at the Channel alone
FamiliesAccepted_channel_only(c) == c.channel.fam \in {"LoRa", "Flrc", "Gfsk"}

\* the match of configure on (&config.modem, &config.channel)
FamiliesAccepted(c) ==
    \/ c.modem.fam = "LoRa" /\ c.channel.fam = "LoRa"
    \/ c.modem.fam = "Flrc" /\ c.channel.fam = "Flrc"
    \/ c.modem.fam = "Gfsk" /\ c.channel.fam = "Gfsk"

\* an assignment to a field of the retained Config after a `?`
Retain(m, field, value) == IF Ok(m) THEN [m EXCEPT !.config[field] = value] ELSE m

\* the family match of configure with its error
match_families(m, c) == IF FamiliesAccepted(c) THEN m ELSE Fail(m, "InvalidConfiguration")

\* Sx128x::configure
configure(m, c) ==
    LET m1 == set_state(m, "StandbyRc")
        m2 == match_families(m1, c)
        m3 == set_regulator_mode(m2, c.regulator_mode)
        m4 == Retain(m3, "regulator_mode", c.regulator_mode)
        m5 == set_channel(m4, c.channel)
        m6 == Retain(m5, "channel", c.channel)
        m7 == configure_modem(m6, c.modem)
        m8 == Retain(m7, "modem", c.modem)
        m9 == set_power_ramp(m8, c.pa_config.power, c.pa_config.ramp_time)
    IN Retain(m9, "pa_config", c.pa_config)


-----------------------------------------------------------------------------
(* Sx128x: construction *)

\* RampTime as u8
Ramp02Us == 0
Ramp20Us == 224

\* Config::default()
DefaultTimeout == [step |-> 2, count |-> 100]
DefaultConfig ==
    [regulator_mode |-> 1,
     channel |-> MkChannel("LoRa", FREQ_MIN),
     modem |-> MkModem("LoRa", 255, 0, << >>),
     pa_config |-> [power |-> 10, ramp_time |-> Ramp20Us],
     rf_timeout |-> DefaultTimeout,
     skip_version_check |-> FALSE]

\* Sx128x::build
build(chip, fail) == Machine(DefaultConfig, "None", chip, fail)

\* Sx128x::reset: the chip is reset, the fields of the driver are not touched
reset(m) == hal_reset(m)

\* VersionCheck with skip_version_check not looked at
VersionCheck_never_skipped(m, c) ==
    IF ~Ok(m) THEN m
    ELSE IF m.val = 65535 \/ m.val = 0 THEN Fail(m, "NoComms")
    ELSE IF m.val # FIRMWARE_OK THEN Fail(m, "InvalidDevice")
    ELSE m

\* the firmware version test of Sx128x::new
VersionCheck(m, c) ==
    IF ~Ok(m) THEN m
    ELSE IF m.val = 65535 \/ m.val = 0 THEN Fail(m, "NoComms")
    ELSE IF m.val # FIRMWARE_OK /\ ~c.skip_version_check THEN Fail(m, "InvalidDevice")
    ELSE m

\* Sx128x::new on machine m = build(hal), with the chip reporting version fw
new(m, c, fw) ==
    LET m1 == hal_reset(m)
        m2 == firmware_version(m1, fw)
        m3 == VersionCheck(m2, c)
        m4 == configure(m3, c)
    IN set_state(m4, "StandbyRc")

-----------------------------------------------------------------------------
(* Sx128x: interrupts, transmit and receive *)

\* clear_irq with every flag cleared, not the flags read
clear_irq_every_flag(m, clear, data) ==
    IF clear /\ IrqOfBytes(data) # {}
    THEN write_cmd(m, "ClearIrqStatus", IrqBytes(AllIrqFlags))
    ELSE m

\* the ClearIrqStatus write of get_interrupts
clear_irq(m, clear, data) ==
    IF clear /\ IrqOfBytes(data) # {} THEN write_cmd(m, "ClearIrqStatus", data) ELSE m

\* the chip raises the flags `raised` while a call of the driver is running
chip_raises(m, raised) == [m EXCEPT !.hal.irq = @ \cup raised]

\* get_interrupts with the chip raising the flags `raised` between the
\* GetIrqStatus read and the ClearIrqStatus write: val is the Irq set read
get_interrupts_while(m, clear, raised) ==
    IF ~Ok(m) THEN m
    ELSE LET data == IrqBytes(m.hal.irq)
         IN OkVal(clear_irq(chip_raises(read_cmd(m, "GetIrqStatus", data), raised),
                            clear, data),
                  IrqOfBytes(data))

\* radio::Interrupts::get_interrupts with no flag raised during the call
get_interrupts(m, clear) == get_interrupts_while(m, clear, {})

\* the SetRangingRole write of start_transmit and start_receive
set_ranging_role(m, role) ==
    IF Ok(m) /\ m.packet_type = "Ranging"
    THEN write_cmd(m, "SetRangingRole", <<role>>)
    ELSE m

TxIrqMask == {"TX_DONE", "CRC_ERROR", "RX_TX_TIMEOUT"}
RxIrqMask == {"RX_DONE", "CRC_ERROR", "RX_TX_TIMEOUT", "SYNCWORD_VALID", "SYNCWORD_ERROR",
              "HEADER_VALID", "HEADER_ERROR", "PREAMBLE_DETECTED"}

\* start_transmit with the interrupt mask set after SetTx
start_transmit_mask_after_tx(m, len) ==
    IF ~Ok(m) THEN m
    ELSE LET modem_config == set_payload_len(m.config.modem, len % 256)
             m1 == configure_modem(m, modem_config)
             m2 == set_buff_base_addr(m1, 0, 0)
             m3 == write_buff(m2, 0, len)
             m4 == set_ranging_role(m3, 1)
             cfg == TimeoutBytes(m.config.rf_timeout)
             m5 == write_cmd(m4, "SetTx", cfg)
             m6 == set_irq_mask(m5, TxIrqMask)
         IN get_state(m6)

\* radio::Transmit::start_transmit with data of length len
start_transmit(m, len) ==
    IF ~Ok(m) THEN m
    ELSE LET modem_config == set_payload_len(m.config.modem, len % 256)
             m1 == configure_modem(m, modem_config)
             m2 == set_buff_base_addr(m1, 0, 0)
             m3 == write_buff(m2, 0, len)
             m4 == set_ranging_role(m3, 1)
             cfg == TimeoutBytes(m.config.rf_timeout)
             m5 == set_irq_mask(m4, TxIrqMask)
             m6 == write_cmd(m5, "SetTx", cfg)
         IN get_state(m6)

\* transmit_result with the timeout flag looked at before TX_DONE
transmit_result_timeout_first(m, irq) ==
    IF ~Ok(m) THEN m
    ELSE IF "RX_TX_TIMEOUT" \in irq THEN Fail(m, "Timeout")
    ELSE IF "TX_DONE" \in irq THEN [m EXCEPT !.val = TRUE]
    ELSE [m EXCEPT !.val = FALSE]

\* the result of check_transmit by the flags read
transmit_result(m, irq) ==
    IF ~Ok(m) THEN m
    ELSE IF "TX_DONE" \in irq THEN [m EXCEPT !.val = TRUE]
    ELSE IF "RX_TX_TIMEOUT" \in irq THEN Fail(m, "Timeout")
    ELSE [m EXCEPT !.val = FALSE]

\* check_transmit from the return of get_interrupts on
transmit_state(m) == transmit_result(get_state(m), m.val)

\* radio::Transmit::check_transmit
check_transmit(m) == transmit_state(get_interrupts(m, TRUE))

\* start_receive with the interrupt mask set after SetRx
start_receive_mask_after_rx(m) ==
    IF ~Ok(m) THEN m
    ELSE LET m1 == set_buff_base_addr(m, 0, 0)
             m2 == configure_modem(m1, m.config.modem)
             m3 == set_ranging_role(m2, 0)
             cfg == TimeoutBytes(m.config.rf_timeout)
             m4 == write_cmd(m3, "SetRx", cfg)
             m5 == set_irq_mask(m4, RxIrqMask)
         IN get_state(m5)

\* radio::Receive::start_receive
start_receive(m) ==
    IF ~Ok(m) THEN m
    ELSE LET m1 == set_buff_base_addr(m, 0, 0)
             m2 == configure_modem(m1, m.config.modem)
             m3 == set_ranging_role(m2, 0)
             cfg == TimeoutBytes(m.config.rf_timeout)
             m4 == set_irq_mask(m3, RxIrqMask)
             m5 == write_cmd(m4, "SetRx", cfg)
         IN get_state(m5)

\* receive_result with RX_DONE looked at first
receive_result_done_first(irq) ==
    IF "RX_DONE" \in irq THEN "Done"
    ELSE IF "CRC_ERROR" \in irq THEN "InvalidCrc"
    ELSE IF "RX_TX_TIMEOUT" \in irq THEN "Timeout"
    ELSE "NotYet"

\* the flags check_receive looks at, in its order
receive_result(irq) ==
    IF "CRC_ERROR" \in irq THEN "InvalidCrc"
    ELSE IF "RX_TX_TIMEOUT" \in irq THEN "Timeout"
    ELSE IF "RX_DONE" \in irq THEN "Done"
    ELSE "NotYet"

\* receive_state restarting the reception on an error whatever restart is
receive_state_restart_unasked(m, restart) ==
    LET res == receive_result(m.val)
    IN IF ~Ok(m) THEN m
       ELSE IF res \in {"InvalidCrc", "Timeout"} THEN OkVal(start_receive(m), FALSE)
       ELSE [m EXCEPT !.val = (res = "Done")]

\* check_receive from the return of get_interrupts on
receive_state(m, restart) ==
    LET res == receive_result(m.val)
    IN IF ~Ok(m) THEN m
       ELSE IF restart /\ res \in {"InvalidCrc", "Timeout"}
       THEN OkVal(start_receive(m), FALSE)
       ELSE IF res \in {"InvalidCrc", "Timeout"} THEN Fail(m, res)
       ELSE [m EXCEPT !.val = (res = "Done")]

\* radio::Receive::check_receive
check_receive(m, restart) == receive_state(get_interrupts(m, TRUE), restart)

\* radio::Power::set_power
set_power(m, power) == set_power_ramp(m, power, m.config.pa_config.ramp_time)

-----------------------------------------------------------------------------
(* Sx128x: status decoding *)

\* LoRaHeader::Implicit as u8 (Explicit is 0)
HeaderImplicit == 128

\* `/` of Rust on signed integers: the quotient is truncated toward zero
TruncDiv(a, b) == IF a >= 0 THEN a \div b ELSE -((-a) \div b)

\* Rssi with the quotient rounded down
Rssi_floor(raw) == (-raw) \div 2

\* -(raw as i16) / 2
Rssi(raw) == TruncDiv(-raw, 2)

\* the SNR of a LoRa or Ranging packet from its raw byte
Snr(raw) == IF raw < 128 THEN raw \div 4 ELSE TruncDiv(raw - 256, 4)

\* `status[0] + 2` on u8: past 255 the sum panics where overflow is checked
\* (wraps false) and wraps where it is not (wraps true)
ble_length(m, status, wraps) ==
    IF status + 2 <= 255 THEN [m EXCEPT !.val = status + 2]
    ELSE IF wraps THEN [m EXCEPT !.val = (status + 2) % 256]
    ELSE Fail(m, "Panic")

\* the match of get_rx_buffer_status on the retained Modem, after the status
\* bytes have been read
rx_length(m, status, wraps) ==
    IF ~Ok(m) THEN m
    ELSE IF m.config.modem.fam = "LoRa" /\ m.config.modem.header_type = HeaderImplicit
    THEN OkVal(read_regs(m, LrPayloadLength, << m.hal.payload_len >>), m.hal.payload_len)
    ELSE IF m.config.modem.fam = "Ble" THEN ble_length(m, status, wraps)
    ELSE [m EXCEPT !.val = status]

\* Ok((rx_buff_ptr, len))
rx_pointer(m, ptr) == IF Ok(m) THEN [m EXCEPT !.val = << ptr, m.val >>] ELSE m

\* Sx128x::get_rx_buffer_status; the chip reports the bytes <<status, ptr>>
get_rx_buffer_status(m, status, ptr, wraps) ==
    rx_pointer(rx_length(read_cmd(m, "GetRxBufferStatus", << status, ptr >>), status, wraps),
               ptr)

\* the match of get_packet_info on the recorded packet type, after the five
\* status bytes d have been read
packet_info(m, d) ==
    IF ~Ok(m) THEN m
    ELSE IF m.packet_type \in {"Gfsk", "Flrc", "Ble"}
    THEN [m EXCEPT !.val = [rssi |-> Rssi(d[2]), has_snr |-> FALSE, snr |-> 0,
                            packet_status |-> d[3], tx_rx_status |-> d[4],
                            sync_addr_status |-> d[5] % 8]]
    ELSE IF m.packet_type \in {"LoRa", "Ranging"}
    THEN [m EXCEPT !.val = [rssi |-> Rssi(d[1]), has_snr |-> TRUE, snr |-> Snr(d[2]),
                            packet_status |-> d[3], tx_rx_status |-> d[4],
                            sync_addr_status |-> d[5] % 8]]
    ELSE Fail(m, "Panic")

\* Sx128x::get_packet_info; the chip reports the five bytes d
get_packet_info(m, d) == packet_info(read_cmd(m, "GetPacketStatus", d), d)

\* Ok(len as usize) of get_received, with the PacketInfo filled in
received_length(m, len) ==
    IF Ok(m) THEN [m EXCEPT !.val = [len |-> len, info |-> m.val]] ELSE m

\* get_received from the return of get_rx_buffer_status on; cap is the
\* length of the caller's buffer, which `data[..len]` must not exceed
received(m, d, cap) ==
    IF ~Ok(m) THEN m
    ELSE IF m.val[2] > cap THEN Fail(m, "Panic")
    ELSE received_length(get_packet_info(read_buff(m, m.val[1], m.val[2]), d), m.val[2])

\* radio::Receive::get_received
get_received(m, status, ptr, d, cap, wraps) ==
    received(get_rx_buffer_status(m, status, ptr, wraps), d, cap)

\* radio::Rssi::poll_rssi; the chip reports the byte raw
poll_rssi(m, raw) == OkVal(read_cmd(m, "GetRssiInst", << raw >>), Rssi(raw))


-----------------------------------------------------------------------------
(* Inputs *)

\* RegulatorMode as u8: Ldo, Dcdc
Regulators == {0, 1}

\* frequencies at and just outside the limits
Frequencies == { [mhz |-> 2399, hz |-> 999999], FREQ_MIN, FREQ_MAX, [mhz |-> 2500, hz |-> 1] }

Channels == { MkChannel(fam, f) : fam \in Families, f \in Frequencies }

\* one Modem per family (LoRaHeader::Explicit is 0), FLRC with and without a
\* sync word, and Modem::None
Modems ==
    { MkModem(fam, 255, 0, << >>) : fam \in Families \cup {"None"} }
    \cup { MkModem("Flrc", 255, 0, << 1, 2, 3, 4 >>) }

\* requested powers over the i8 range, in and out of [-18, 13]
Powers == {-128, -18, 13, 127}

OtherTimeout == [step |-> 0, count |-> 300]

\* regulator mode, power amplifier settings and timeout of a Config
Settings ==
    { << 0, [power |-> 13, ramp_time |-> Ramp20Us], DefaultTimeout >>,
      << 1, [power |-> 14, ramp_time |-> Ramp02Us], DefaultTimeout >> }

MkConfig(s, ch, md, skip) ==
    [regulator_mode |-> s[1], channel |-> ch, modem |-> md, pa_config |-> s[2],
     rf_timeout |-> s[3], skip_version_check |-> skip]

\* Configs handed to configure and new: every pairing of a Channel family
\* with a Modem under the first settings, the pairings of one family under
\* the other settings, and a matched and a mismatched pairing out of range
Configs ==
    { MkConfig(s, MkChannel(fam, FREQ_MIN), md, FALSE) :
        s \in { x \in Settings : x[1] = 0 }, fam \in Families, md \in Modems }
    \cup { MkConfig(s, MkChannel(md.fam, FREQ_MIN), md, FALSE) :
             s \in Settings, md \in { x \in Modems : x.fam # "None" } }
    \cup { MkConfig(s, MkChannel("LoRa", f), MkModem(fam, 255, 0, << >>), FALSE) :
             s \in Settings, f \in Frequencies \ {FREQ_MIN, FREQ_MAX},
             fam \in {"LoRa", "Gfsk"} }

\* the inputs of the specification of all operations: a LoRa Config, an
\* FLRC Config with another timeout, a rejected pairing, a Config out of range
FewConfigs ==
    { c \in Configs :
        /\ c.regulator_mode = 0 /\ c.channel.fam = "LoRa"
        /\ c.modem.fam \in {"LoRa", "Gfsk"} /\ c.channel.freq = FREQ_MIN }
    \cup { [c EXCEPT !.rf_timeout = OtherTimeout] : c \in
           { x \in Configs :
               /\ x.regulator_mode = 1
               /\ \/ x.modem.fam = "Flrc" /\ x.modem.sync_word_value # << >>
                  \/ x.modem.fam = "LoRa" /\ FreqLt(FREQ_MAX, x.channel.freq) } }

FewChannels == { MkChannel(fam, FREQ_MIN) : fam \in {"LoRa", "Ranging"} }

\* the channels set_channel is handed in the specification of the
\* configuration operations: every family, and LoRa at every frequency
SomeChannels == { ch \in Channels : ch.freq = FREQ_MIN \/ ch.fam = "LoRa" }

\* firmware versions the chip may report: 0x0000, 0xFFFF, 0xA9B5, 0x1234
Versions == {0, 65535, FIRMWARE_OK, 4660}

\* payload lengths handed to start_transmit
DataLens == (1 .. MaxDataLen) \cup {256 + MaxDataLen}

SyncIndexes == 0 .. 4
SyncValues == { << 1, 2, 3, 4 >>, << 1, 2, 3, 4, 5 >> }
\* bytes the chip reports: a buffer length, a buffer pointer, the two signal
\* bytes <<d[1], d[2]>> of a packet status, an instantaneous RSSI
StatusLens == {0, 33, 254, 255}
Pointers == {0, 128}
SignalBytes == { << r, s >> : r \in {0, 200, 201}, s \in {10, 127, 128, 250, 255} }
Bytes == 0 .. 255
\* lengths of the buffer handed to get_received
BufferLens == {33, 300}
\* a LoRa Config with an implicit header and a payload of 16 bytes
ImplicitConfig ==
    MkConfig(<< 0, [power |-> 13, ramp_time |-> Ramp20Us], DefaultTimeout >>,
             MkChannel("LoRa", FREQ_MIN), MkModem("LoRa", 16, HeaderImplicit, << >>), FALSE)
\* sync words of every length up to MaxSyncLen
SyncWords == { [i \in 1 .. n |-> i] : n \in 0 .. MaxSyncLen }

-----------------------------------------------------------------------------
(* State machine *)

PowerOnChip ==
    [state |-> "StandbyRc", packet_type |-> "Gfsk", regulator |-> 0, tx_power |-> 31,
     payload_len |-> 0, irq |-> {}, sync_tol |-> 132]

Snapshot == [config |-> config, packet_type |-> packet_type, hal |-> hal]

\* between two calls nothing of the last call is kept
NoCall ==
    /\ args = << >>
    /\ result = [err |-> "Ok", val |-> 0]
    /\ trace = << >>
    /\ before = [config |-> DefaultConfig, packet_type |-> "None", hal |-> PowerOnChip]

Init ==
    /\ config = DefaultConfig
    /\ packet_type = "None"
    /\ hal = PowerOnChip
    /\ built = FALSE
    /\ op = "build"
    /\ NoCall
    /\ supplied = DefaultTimeout

\* a driver object exists and no call is in progress
Ready == built /\ op = "idle"

\* the driver object as a machine, with bus transaction `fail` failing
Self(fail) == Machine(config, packet_type, hal, fail)

\* the call returns: the driver fields, the chip and the record of the call
Return(name, a, m) ==
    /\ config' = m.config
    /\ packet_type' = m.packet_type
    /\ hal' = m.hal
    /\ op' = name
    /\ args' = a
    /\ result' = [err |-> m.err, val |-> m.val]
    /\ trace' = m.log
    /\ before' = Snapshot

\* the return of new: on an error no driver object is returned
NewReturn(c, fw, m) ==
    /\ Return("new", [config |-> c, version |-> fw],
              IF Ok(m) THEN m
              ELSE [m EXCEPT !.config = DefaultConfig, !.packet_type = "None"])
    /\ built' = Ok(m)
    /\ supplied' = IF Ok(m) THEN c.rf_timeout ELSE supplied

\* Sx128x::new(hal, config)
New(c, fw) ==
    /\ op = "build"
    /\ \E fail \in 0 .. Len(new(build(hal, 0), c, fw).log) :
         NewReturn(c, fw, new(build(hal, fail), c, fw))

ConfigureReturn(c, m) ==
    /\ Return("configure", c, m)
    /\ supplied' = IF Ok(m) THEN c.rf_timeout ELSE supplied

Configure(c) ==
    /\ Ready
    /\ \E fail \in 0 .. Len(configure(Self(0), c).log) :
         ConfigureReturn(c, configure(Self(fail), c))
    /\ UNCHANGED built

SetChannel(ch) ==
    /\ Ready
    /\ \E fail \in 0 .. Len(set_channel(Self(0), ch).log) :
         Return("set_channel", ch, set_channel(Self(fail), ch))
    /\ UNCHANGED <<built, supplied>>

SetPower(power) ==
    /\ Ready
    /\ \E fail \in 0 .. Len(set_power(Self(0), power).log) :
         Return("set_power", power, set_power(Self(fail), power))
    /\ UNCHANGED <<built, supplied>>

SetSyncword(index, value) ==
    /\ Ready
    /\ \E fail \in 0 .. Len(set_syncword(Self(0), index, value).log) :
         Return("set_syncword", [index |-> index, value |-> value],
                set_syncword(Self(fail), index, value))
    /\ UNCHANGED <<built, supplied>>

StartTransmit(len) ==
    /\ Ready
    /\ \E fail \in 0 .. Len(start_transmit(Self(0), len).log) :
         Return("start_transmit", len, start_transmit(Self(fail), len))
    /\ UNCHANGED <<built, supplied>>

CheckTransmit ==
    /\ Ready
    /\ \E fail \in 0 .. Len(check_transmit(Self(0)).log) :
         Return("check_transmit", << >>, check_transmit(Self(fail)))
    /\ UNCHANGED <<built, supplied>>

StartReceive ==
    /\ Ready
    /\ \E fail \in 0 .. Len(start_receive(Self(0)).log) :
         Return("start_receive", << >>, start_receive(Self(fail)))
    /\ UNCHANGED <<built, supplied>>

CheckReceive(restart) ==
    /\ Ready
    /\ \E fail \in 0 .. Len(check_receive(Self(0), restart).log) :
         Return("check_receive", restart, check_receive(Self(fail), restart))
    /\ UNCHANGED <<built, supplied>>

\* the chip ends a transmission or a reception by itself: it raises the
\* flags and falls back to StandbyRC
ChipEvent(flags) ==
    /\ op = "idle"
    /\ Cardinality(hal.irq) < MaxPending
    /\ \/ hal.state = "Tx" /\ flags \in { {"TX_DONE"}, {"RX_TX_TIMEOUT"} }
       \/ hal.state = "Rx" /\ flags \in { {"RX_DONE"}, {"RX_DONE", "CRC_ERROR"},
                                          {"RX_TX_TIMEOUT"} }
    /\ hal' = [hal EXCEPT !.irq = @ \cup flags, !.state = "StandbyRc"]
    /\ UNCHANGED <<config, packet_type, built, supplied, op, args, result, trace, before>>

GetReceived(status, ptr, d, cap, wraps) ==
    /\ Ready
    /\ \E fail \in 0 .. Len(get_received(Self(0), status, ptr, d, cap, wraps).log) :
         Return("get_received",
                [status |-> status, ptr |-> ptr, d |-> d, cap |-> cap, wraps |-> wraps],
                get_received(Self(fail), status, ptr, d, cap, wraps))
    /\ UNCHANGED <<built, supplied>>

PollRssi(raw) ==
    /\ Ready
    /\ \E fail \in 0 .. Len(poll_rssi(Self(0), raw).log) :
         Return("poll_rssi", raw, poll_rssi(Self(fail), raw))
    /\ UNCHANGED <<built, supplied>>

GetInterrupts(clear, raised) ==
    /\ Ready
    /\ \E fail \in 0 .. Len(get_interrupts_while(Self(0), clear, raised).log) :
         Return("get_interrupts", [clear |-> clear, raised |-> raised],
                get_interrupts_while(Self(fail), clear, raised))
    /\ UNCHANGED <<built, supplied>>

Reset ==
    /\ Ready
    /\ \E fail \in 0 .. Len(reset(Self(0)).log) :
         Return("reset", << >>, reset(Self(fail)))
    /\ UNCHANGED <<built, supplied>>

\* Sx128x::build(hal) called inside the crate, the retained Modem then set
\* to md: nothing is written to the chip and no packet type is recorded
Build(md) ==
    /\ op = "build"
    /\ config' = [DefaultConfig EXCEPT !.modem = md]
    /\ built' = TRUE
    /\ op' = "idle"
    /\ UNCHANGED <<packet_type, hal, supplied, args, result, trace, before>>

\* the flags left by the operations the chip has ended since the driver last
\* read them: any of the four flags the driver looks at
ChipFlags(flags) ==
    /\ op = "idle"
    /\ hal.state \in {"Tx", "Rx"}
    /\ hal.irq = {}
    /\ flags # {}
    /\ hal' = [hal EXCEPT !.irq = flags, !.state = "StandbyRc"]
    /\ UNCHANGED <<config, packet_type, built, supplied, op, args, result, trace, before>>

\* the caller is done with the Result of the last call: the record of the
\* call is dropped, the driver and the chip stay as they are
Idle ==
    /\ op \notin {"build", "idle"}
    /\ op' = "idle"
    /\ args' = << >>
    /\ result' = [err |-> "Ok", val |-> 0]
    /\ trace' = << >>
    /\ before' = [config |-> DefaultConfig, packet_type |-> "None", hal |-> PowerOnChip]
    /\ UNCHANGED <<config, packet_type, hal, built, supplied>>

\* every operation, on few inputs
Next ==
    \/ \E c \in FewConfigs, fw \in Versions, skip \in BOOLEAN :
          New([c EXCEPT !.skip_version_check = skip], fw)
    \/ \E c \in FewConfigs : Configure(c)
    \/ \E ch \in FewChannels : SetChannel(ch)
    \/ \E p \in {127} : SetPower(p)
    \/ \E i \in {1}, v \in SyncValues : SetSyncword(i, v)
    \/ \E len \in DataLens : StartTransmit(len)
    \/ CheckTransmit
    \/ StartReceive
    \/ \E restart \in BOOLEAN : CheckReceive(restart)
    \/ \E flags \in SUBSET {"TX_DONE", "RX_DONE", "CRC_ERROR", "RX_TX_TIMEOUT"} :
          ChipEvent(flags)
    \/ Idle

Spec == Init /\ [][Next]_vars

\* the configuration operations, on every input
NextConfigure ==
    \/ \E c \in Configs, fw \in Versions, skip \in BOOLEAN :
          New([c EXCEPT !.skip_version_check = skip], fw)
    \/ \E c \in Configs : Configure(c)
    \/ \E ch \in SomeChannels : SetChannel(ch)
    \/ \E p \in {-128, 127} : SetPower(p)
    \/ Idle

SpecConfigure == Init /\ [][NextConfigure]_vars

\* set_syncword on every index and length, under every packet type that
\* set_channel records
NextSyncword ==
    \/ \E c \in FewConfigs : New(c, FIRMWARE_OK)
    \/ \E ch \in { x \in SomeChannels : x.freq = FREQ_MIN } : SetChannel(ch)
    \/ \E i \in SyncIndexes, v \in SyncWords : SetSyncword(i, v)
    \/ Idle

SpecSyncword == Init /\ [][NextSyncword]_vars

\* reading a received packet and the RSSI, under every retained Modem and
\* every recorded packet type
NextReceive ==
    \/ \E c \in {ImplicitConfig} : New(c, FIRMWARE_OK)
    \/ \E md \in { x \in Modems : x.fam \in {"Ble", "Ranging", "Gfsk"} } \cup
                 { MkModem("Ranging", 16, HeaderImplicit, << >>) } : Build(md)
    \/ \E ch \in { x \in SomeChannels : x.freq = FREQ_MIN } : SetChannel(ch)
    \/ \E status \in StatusLens, ptr \in Pointers, s \in SignalBytes, cap \in BufferLens,
          wraps \in BOOLEAN :
          GetReceived(status, ptr, << s[1], s[2], 0, 0, 0 >>, cap, wraps)
    \/ \E raw \in Bytes : PollRssi(raw)
    \/ Idle

SpecReceive == Init /\ [][NextReceive]_vars

\* powers of the whole i8 range
Int8 == -128 .. 127

\* set_power_ramp on every power: construction with every power under
\* either ramp time, then set_power
NextPower ==
    \/ \E p \in Int8, ramp \in {Ramp02Us, Ramp20Us} :
          New([DefaultConfig EXCEPT !.pa_config = [power |-> p, ramp_time |-> ramp]],
              FIRMWARE_OK)
    \/ \E p \in Powers : SetPower(p)
    \/ Idle

SpecPower == Init /\ [][NextPower]_vars

\* start_transmit and start_receive under every recorded packet type and
\* retained Modem
NextTransmit ==
    \/ \E c \in FewConfigs : New(c, FIRMWARE_OK)
    \/ \E md \in { x \in Modems : x.fam = "Ranging" } : Build(md)
    \/ \E ch \in FewChannels : SetChannel(ch)
    \/ \E len \in DataLens : StartTransmit(len)
    \/ StartReceive
    \/ Idle

SpecTransmit == Init /\ [][NextTransmit]_vars

\* every operation of the driver, each bus transaction of each call failing
\* in turn
NextErrors ==
    \/ \E c \in FewConfigs, fw \in {FIRMWARE_OK, 4660} : New(c, fw)
    \/ \E c \in FewConfigs : Configure(c)
    \/ \E ch \in FewChannels : SetChannel(ch)
    \/ \E v \in SyncValues : SetSyncword(1, v)
    \/ StartTransmit(1)
    \/ CheckTransmit
    \/ StartReceive
    \/ \E restart \in BOOLEAN : CheckReceive(restart)
    \/ \E cap \in BufferLens : GetReceived(33, 0, << 200, 10, 0, 0, 0 >>, cap, FALSE)
    \/ Reset
    \/ \E flags \in {{"TX_DONE"}, {"RX_DONE"}, {"CRC_ERROR"}, {"RX_TX_TIMEOUT"}} :
          ChipFlags(flags)
    \/ Idle

SpecErrors == Init /\ [][NextErrors]_vars

\* the public reset among the operations that write the packet type
NextReset ==
    \/ \E c \in FewConfigs : New(c, FIRMWARE_OK)
    \/ Reset
    \/ \E ch \in FewChannels : SetChannel(ch)
    \/ StartReceive
    \/ \E len \in DataLens : StartTransmit(len)
    \/ Idle

SpecReset == Init /\ [][NextReset]_vars

\* contents the sync word tolerance register may have when the driver is built
Tolerances == {0, 15, 132, 165, 240, 255}

\* a driver built on a chip whose tolerance register holds any of these
InitTolerance ==
    /\ config = DefaultConfig
    /\ packet_type = "None"
    /\ \E tol \in Tolerances : hal = [PowerOnChip EXCEPT !.sync_tol = tol]
    /\ built = FALSE
    /\ op = "build"
    /\ NoCall
    /\ supplied = DefaultTimeout

\* the sync word operations under the packet types GFSK, FLRC and BLE
NextTolerance ==
    \/ \E md \in { x \in Modems : x.fam \in {"Flrc", "Gfsk"} } : Build(md)
    \/ \E ch \in { x \in Channels : x.freq = FREQ_MIN /\ x.fam \in {"Gfsk", "Flrc", "Ble"} } :
          SetChannel(ch)
    \/ \E i \in {1, 3}, v \in SyncValues : SetSyncword(i, v)
    \/ StartReceive
    \/ Idle

SpecTolerance == InitTolerance /\ [][NextTolerance]_vars

\* flags the chip raises while get_interrupts runs
RacedFlags == {"TX_DONE", "RX_DONE", "RX_TX_TIMEOUT", "PREAMBLE_DETECTED"}

\* get_interrupts called again and again while the chip raises flags
NextInterrupts ==
    \/ \E c \in FewConfigs : New(c, FIRMWARE_OK)
    \/ StartTransmit(1)
    \/ StartReceive
    \/ \E clear \in BOOLEAN, raised \in SUBSET RacedFlags : GetInterrupts(clear, raised)
    \/ Idle

SpecInterrupts == Init /\ [][NextInterrupts]_vars

\* the flags the driver polls for
PolledFlags == {"TX_DONE", "RX_DONE", "CRC_ERROR", "RX_TX_TIMEOUT"}

\* transmit, receive and their polls, on every set of flags
NextPoll ==
    \/ \E c \in FewConfigs : New(c, FIRMWARE_OK)
    \/ StartTransmit(1)
    \/ CheckTransmit
    \/ StartReceive
    \/ \E restart \in BOOLEAN : CheckReceive(restart)
    \/ \E flags \in SUBSET PolledFlags : ChipFlags(flags)
    \/ Idle

SpecPoll == Init /\ [][NextPoll]_vars


-----------------------------------------------------------------------------
(* Properties *)

\* the name of each transaction of a trace: the command, or the kind of a
\* register or buffer access
Names(tr) == [i \in 1 .. Len(tr) |-> IF tr[i].cmd # "" THEN tr[i].cmd ELSE tr[i].kind]

IsWrite(e) == e.kind \in {"write_cmd", "write_regs", "write_buff", "reset"}

Count(tr, cmd) == Cardinality({ i \in 1 .. Len(tr) : tr[i].cmd = cmd })

AllOk(tr) == \A i \in 1 .. Len(tr) : tr[i].ok

Mismatched(c) == c.channel.fam # c.modem.fam

\* C1 as stated: configure with a Channel and a Modem of different families
\* returns InvalidConfiguration and the call issues no bus write at all.
C1_MismatchNoBusWrite ==
    (op = "configure" /\ Mismatched(args)) =>
        /\ AllOk(trace) => result.err = "InvalidConfiguration"
        /\ \A i \in 1 .. Len(trace) : ~IsWrite(trace[i])

\* C1 as amended: configure with a Channel and a Modem of different families
\* issues exactly one bus transaction, the SetStandby write that forces
\* StandbyRC; it returns InvalidConfiguration when that write succeeds (the
\* bus error when it fails), and the retained Config and the recorded packet
\* type are as before the call.
C1_MismatchOnlyStandby ==
    (op = "configure" /\ Mismatched(args)) =>
        /\ Names(trace) = << "SetStandby" >>
        /\ result.err = IF trace[1].ok THEN "InvalidConfiguration" ELSE "Comms"
        /\ config = before.config
        /\ packet_type = before.packet_type

\* a LoRa Channel with a GFSK Modem is rejected by a driver that holds an
\* FLRC configuration
C1_Witness ==
    /\ op = "configure"
    /\ args.channel.fam = "LoRa" /\ args.modem.fam = "Gfsk"
    /\ result.err = "InvalidConfiguration"
    /\ before.config.modem.fam = "Flrc"

\* C2 as stated: with the frequency in range and no bus error, configure
\* returns InvalidConfiguration exactly when the family of the Channel
\* differs from the family of the Modem, and succeeds otherwise.
C2_RejectsExactlyMismatch ==
    (op = "configure" /\ AllOk(trace) /\ ~FrequencyInvalid(args.channel.freq)) =>
        /\ (result.err = "InvalidConfiguration") <=> Mismatched(args)
        /\ ~Mismatched(args) => result.err = "Ok"

Opt(b, x) == IF b THEN << x >> ELSE << >>

\* C3: the transactions of a successful configure are SetStandby,
\* SetRegulatorMode, then the channel writes (SetRfFrequency, an optional
\* SetPacketType, SetModulationParams), then the modem writes (an optional
\* SetPacketType, SetPacketParams, the optional FLRC sync word accesses),
\* then SetTxParams, in this order and nothing else.
C3_ConfigureOrder ==
    (op = "configure" /\ result.err = "Ok") =>
        \E a \in BOOLEAN, b \in BOOLEAN, s \in BOOLEAN :
            Names(trace) =
                << "SetStandby", "SetRegulatorMode", "SetRfFrequency" >>
                \o Opt(a, "SetPacketType") \o << "SetModulationParams" >>
                \o Opt(b, "SetPacketType") \o << "SetPacketParams" >>
                \o (IF s THEN << "write_regs", "read_regs", "write_regs" >> ELSE << >>)
                \o << "SetTxParams" >>

\* a successful configure that switches the packet type and programs the
\* FLRC sync word
C3_Witness ==
    /\ op = "configure" /\ result.err = "Ok"
    /\ Count(trace, "SetPacketType") = 1
    /\ args.modem.sync_word_value # << >>
    /\ Len(trace) = 10

\* C4: configure, start_transmit and start_receive each write SetPacketType
\* at most once; configure writes it zero times when the packet type of the
\* new Channel and Modem is the one recorded, and start_transmit and
\* start_receive write it only when the recorded packet type differs from
\* the one of the retained Modem.
C4_PacketTypeOnce ==
    /\ op \in {"configure", "start_transmit", "start_receive"} =>
          Count(trace, "SetPacketType") <= 1
    /\ (op = "configure" /\ ~Mismatched(args)
          /\ PacketTypeOfChannel(args.channel) = before.packet_type) =>
          Count(trace, "SetPacketType") = 0
    /\ (op \in {"start_transmit", "start_receive"}
          /\ before.packet_type = PacketTypeOfModem(before.config.modem)) =>
          Count(trace, "SetPacketType") = 0

\* a successful configure that had to switch the packet type, once
C4_Witness ==
    /\ op = "configure" /\ result.err = "Ok"
    /\ before.packet_type # PacketTypeOfChannel(args.channel)
    /\ Count(trace, "SetPacketType") = 1


\* the writes that change the modem, channel or power configuration
IsReconfiguration(e) ==
    \/ e.kind = "write_cmd"
         /\ e.cmd \in {"SetPacketType", "SetPacketParams", "SetModulationParams",
                       "SetRfFrequency", "SetTxParams", "SetRegulatorMode"}
    \/ e.kind = "write_regs" /\ e.addr # LrSyncWordTolerance

\* C5 as stated: no reconfiguration write is issued while the chip is in
\* another state than StandbyRC.
C5_ReconfigurationInStandby ==
    \A i \in 1 .. Len(trace) : IsReconfiguration(trace[i]) => trace[i].state = "StandbyRc"

\* the step of configure the failed transaction of a trace belongs to:
\* 0 standby, 1 regulator mode, 2 channel, 3 modem, 4 power amplifier
FailedStep(tr) ==
    LET e == tr[Len(tr)]
    IN CASE e.cmd = "SetStandby" -> 0
         [] e.cmd = "SetRegulatorMode" -> 1
         [] e.cmd \in {"SetRfFrequency", "SetModulationParams"} -> 2
         [] e.cmd = "SetPacketType" ->
               IF Count(tr, "SetModulationParams") = 0 THEN 2 ELSE 3
         [] e.cmd = "SetTxParams" -> 4
         [] OTHER -> 3

\* C6 as stated: when configure fails with a bus error in step k, the
\* retained fields of the steps before k hold the new values and the
\* retained fields of step k and of the later steps are as before the call.
C6_RetainAfterWrite ==
    (op = "configure" /\ result.err = "Comms") =>
        LET k == FailedStep(trace)
            Field(step, given, old, now) == now = IF step < k THEN given ELSE old
        IN /\ Field(1, args.regulator_mode, before.config.regulator_mode,
                    config.regulator_mode)
           /\ Field(2, args.channel, before.config.channel, config.channel)
           /\ Field(3, args.modem, before.config.modem, config.modem)
           /\ Field(4, args.pa_config, before.config.pa_config, config.pa_config)

\* C7 as stated: once the driver is constructed, the retained power lies in
\* [-18, 13] and is the register value of the last successful SetTxParams
\* write less 18.
C7_RetainedPowerIsChipPower ==
    built =>
        /\ config.pa_config.power \in PowerMin .. PowerMax
        /\ config.pa_config.power = hal.tx_power - PowerOffset

\* C8 as stated: after a successful start_transmit(data) the payload length
\* of the retained Modem is data.len(), the payload length of the last
\* SetPacketParams written.
C8_RetainedPayloadLength ==
    (op = "start_transmit" /\ result.err = "Ok") =>
        /\ config.modem.payload_length = args
        /\ config.modem.payload_length = hal.payload_len

\* C9 as stated: after a successful configure(c) or construction with c,
\* SetTx and SetRx carry the three timeout bytes of c.rf_timeout.
C9_TimeoutOfSuppliedConfig ==
    op \in {"start_transmit", "start_receive"} =>
        \A i \in 1 .. Len(trace) :
            trace[i].cmd \in {"SetTx", "SetRx"} => trace[i].data = TimeoutBytes(supplied)

\* C10 as stated: for a frequency out of range (families matching, no bus
\* error) set_channel and configure fail with InvalidFrequency before any
\* bus transaction, the chip and the driver being exactly as before.
C10_InvalidFrequencyNoBusWrite ==
    /\ (op = "set_channel" /\ FrequencyInvalid(args.freq)) =>
          /\ result.err = "InvalidFrequency" /\ trace = << >>
          /\ config = before.config /\ packet_type = before.packet_type
          /\ hal = before.hal
    /\ (op = "configure" /\ FrequencyInvalid(args.channel.freq)
          /\ FamiliesAccepted(args) /\ AllOk(trace)) =>
          /\ result.err = "InvalidFrequency" /\ trace = << >>
          /\ config = before.config /\ packet_type = before.packet_type
          /\ hal = before.hal

\* the (packet type, index) pairs that have a sync word, and its length
InSyncwordTable(pt, index) ==
    \/ pt \in {"Gfsk", "Flrc"} /\ index \in {1, 2, 3}
    \/ pt = "Ble"

MandatedSyncLen(pt) == IF pt = "Gfsk" THEN 5 ELSE 4

\* C11: set_syncword on a (recorded packet type, index) pair outside the
\* table, or with a value of another length than the mandated one, returns
\* InvalidConfiguration and performs no bus transaction.
C11_InvalidSyncwordNoBus ==
    (/\ op = "set_syncword"
     /\ \/ ~InSyncwordTable(before.packet_type, args.index)
        \/ Len(args.value) # MandatedSyncLen(before.packet_type)) =>
        /\ result.err = "InvalidConfiguration"
        /\ trace = << >>
        /\ hal = before.hal

\* a GFSK sync word of the right length at index 0 is refused
C11_Witness ==
    /\ op = "set_syncword"
    /\ before.packet_type = "Gfsk"
    /\ args.index = 0
    /\ Len(args.value) = 5
    /\ result.err = "InvalidConfiguration"
    /\ trace = << >>

\* C12: construction resets the chip, then reads the firmware version; once
\* both have succeeded, version 0x0000 or 0xFFFF gives NoComms, another
\* version than 0xA9B5 without skip_version_check gives InvalidDevice with
\* that version, and nothing more is written in these two cases; every other
\* version goes on to configure, whose first write is SetStandby.
C12_VersionDecision ==
    op = "new" =>
        /\ Len(trace) >= 1
        /\ trace[1].kind = "reset"
        /\ trace[1].ok =>
              /\ Len(trace) >= 2
              /\ trace[2].kind = "read_regs"
              /\ trace[2].addr = LrFirmwareVersionMsb
        /\ (Len(trace) >= 2 /\ trace[2].ok) =>
              LET v == args.version
              IN IF v \in {0, 65535}
                 THEN /\ result.err = "NoComms"
                      /\ Len(trace) = 2
                      /\ ~built
                 ELSE IF v # 43445 /\ ~args.config.skip_version_check
                 THEN /\ result = [err |-> "InvalidDevice", val |-> v]
                      /\ Len(trace) = 2
                      /\ ~built
                 ELSE /\ result.err \notin {"NoComms", "InvalidDevice"}
                      /\ Len(trace) >= 3
                      /\ trace[3].cmd = "SetStandby"

\* version 0x1234 with skip_version_check set: construction succeeds
C12_Witness ==
    /\ op = "new"
    /\ args.version = 4660
    /\ args.config.skip_version_check
    /\ result.err = "Ok"
    /\ built

\* the first transaction of a poll reads the flags, the second clears the
\* flags read if there are any
ReadsAndClears(tr, irq) ==
    /\ Len(tr) >= 1
    /\ tr[1].cmd = "GetIrqStatus"
    /\ tr[1].data = IrqBytes(irq)
    /\ (irq # {} /\ tr[1].ok) =>
          /\ Len(tr) >= 2
          /\ tr[2].cmd = "ClearIrqStatus"
          /\ tr[2].data = IrqBytes(irq)
    /\ (irq = {} /\ Len(tr) >= 2) => tr[2].cmd # "ClearIrqStatus"

\* C13: check_transmit reads and clears the flags; without a bus error it
\* returns true if TX_DONE was read (RX_TX_TIMEOUT set or not), fails with
\* Timeout if RX_TX_TIMEOUT was read and TX_DONE was not, and returns false
\* otherwise, whatever the other flags are.
C13_CheckTransmitResult ==
    op = "check_transmit" =>
        LET irq == before.hal.irq
        IN /\ ReadsAndClears(trace, irq)
           /\ AllOk(trace) =>
                 /\ hal.irq = {}
                 /\ IF "TX_DONE" \in irq THEN result = [err |-> "Ok", val |-> TRUE]
                    ELSE IF "RX_TX_TIMEOUT" \in irq THEN result.err = "Timeout"
                    ELSE result = [err |-> "Ok", val |-> FALSE]

\* TX_DONE, RX_TX_TIMEOUT and CRC_ERROR read at once: the transmission is done
C13_Witness ==
    /\ op = "check_transmit"
    /\ {"TX_DONE", "RX_TX_TIMEOUT", "CRC_ERROR"} \subseteq before.hal.irq
    /\ result = [err |-> "Ok", val |-> TRUE]

\* C14: check_receive(restart = false) without a bus error decides by the
\* first match in the order CRC_ERROR, RX_TX_TIMEOUT, RX_DONE over the flags
\* read: InvalidCrc, else Timeout, else true, else false.
C14_CheckReceivePriority ==
    (op = "check_receive" /\ args = FALSE /\ AllOk(trace)) =>
        LET irq == before.hal.irq
        IN IF "CRC_ERROR" \in irq THEN result.err = "InvalidCrc"
           ELSE IF "RX_TX_TIMEOUT" \in irq THEN result.err = "Timeout"
           ELSE IF "RX_DONE" \in irq THEN result = [err |-> "Ok", val |-> TRUE]
           ELSE result = [err |-> "Ok", val |-> FALSE]

\* the three flags read at once: the CRC error wins
C14_Witness ==
    /\ op = "check_receive"
    /\ args = FALSE
    /\ {"CRC_ERROR", "RX_TX_TIMEOUT", "RX_DONE"} \subseteq before.hal.irq
    /\ result.err = "InvalidCrc"

RxError(irq) == "CRC_ERROR" \in irq \/ "RX_TX_TIMEOUT" \in irq

\* C15: on an RX error flag check_receive(restart = true) runs start_receive
\* once (one SetRx, the chip in Rx) and returns false, check_receive(restart
\* = false) returns the error and writes no SetRx; without an error flag
\* neither writes SetRx.
C15_RestartOnce ==
    op = "check_receive" =>
        LET irq == before.hal.irq
        IN /\ Count(trace, "SetRx") <= 1
           /\ (RxError(irq) /\ args = TRUE /\ AllOk(trace)) =>
                 /\ result = [err |-> "Ok", val |-> FALSE]
                 /\ Count(trace, "SetRx") = 1
                 /\ Count(trace, "SetBufferBaseAddress") = 1
                 /\ Count(trace, "SetPacketParams") = 1
                 /\ Count(trace, "SetDioIrqParams") = 1
                 /\ hal.state = "Rx"
           /\ (RxError(irq) /\ args = FALSE /\ AllOk(trace)) =>
                 /\ result.err \in {"InvalidCrc", "Timeout"}
                 /\ Count(trace, "SetRx") = 0
           /\ ~RxError(irq) => Count(trace, "SetRx") = 0

\* a CRC error polled with restart: the reception is started again
C15_Witness ==
    /\ op = "check_receive"
    /\ args = TRUE
    /\ "CRC_ERROR" \in before.hal.irq
    /\ result = [err |-> "Ok", val |-> FALSE]
    /\ Count(trace, "SetRx") = 1
    /\ hal.state = "Rx"

\* the length get_rx_buffer_status is to return, by the retained Modem
ExpectedRxLength(md, status, reg) ==
    IF md.fam = "LoRa" /\ md.header_type = 128 THEN reg
    ELSE IF md.fam = "Ble" THEN status + 2
    ELSE status

C18_SignalDecode ==
    /\ (op = "poll_rssi" /\ result.err = "Ok") => result.val = -(args \div 2)
    /\ (op = "get_received" /\ result.err = "Ok") =>
          LET info == result.val.info
              lora == before.packet_type \in {"LoRa", "Ranging"}
              b == IF lora THEN args.d[1] ELSE args.d[2]
              raw == args.d[2]
          IN /\ info.rssi = -(b \div 2)
             /\ info.has_snr = lora
             /\ lora => info.snr = IF raw < 128 THEN raw \div 4
                                    ELSE -((256 - raw) \div 4)

\* raw RSSI 201 and raw SNR 250 of a LoRa packet decode to -100 and -1
C18_Witness ==
    /\ op = "get_received"
    /\ result.err = "Ok"
    /\ before.packet_type = "LoRa"
    /\ args.d[1] = 201
    /\ args.d[2] = 250
    /\ result.val.info.rssi = -100
    /\ result.val.info.snr = -1

\* the power and ramp time an operation hands to set_power_ramp
PowerAsked ==
    IF op = "set_power" THEN [power |-> args, ramp_time |-> before.config.pa_config.ramp_time]
    ELSE IF op = "new" THEN args.config.pa_config
    ELSE args.pa_config

\* C19: SetTxParams is written with first byte clamp(p, -18, 13) + 18, which
\* lies in 0..31 and less 18 is the clamped power, and with second byte the
\* ramp time; power 13 with Ramp20Us writes the bytes 0x1f, 0xe0.
C19_PowerEncoding ==
    op \in {"set_power", "configure", "new"} =>
        \A i \in 1 .. Len(trace) :
            trace[i].cmd = "SetTxParams" =>
                LET p == PowerAsked.power
                    c == IF p < -18 THEN -18 ELSE IF p > 13 THEN 13 ELSE p
                    data == trace[i].data
                IN /\ data = << c + 18, PowerAsked.ramp_time >>
                   /\ data[1] \in 0 .. 31
                   /\ data[1] - 18 = c
                   /\ (p = 13 /\ PowerAsked.ramp_time = 224) => data = << 31, 224 >>

\* set_power(13) under Ramp20Us writes 0x1f, 0xe0
C19_Witness ==
    /\ op = "set_power"
    /\ args = 13
    /\ Len(trace) = 1
    /\ trace[1].cmd = "SetTxParams"
    /\ trace[1].data = << 31, 224 >>
    /\ result.err = "Ok"

\* the transaction of the call that carries command cmd
Entry(tr, cmd) == tr[CHOOSE i \in 1 .. Len(tr) : tr[i].cmd = cmd]

DriverOperations ==
    {"new", "configure", "set_channel", "set_syncword", "start_transmit",
     "check_transmit", "start_receive", "check_receive", "get_received"}

\* C16: in every operation of the driver a bus transaction that returns an
\* error is the last transaction of the call (nothing follows it, the
\* transaction is not issued again) and the call returns that error; a call
\* returns a bus error only when its last transaction failed; a
\* check_receive(restart = true) whose transactions all succeed returns Ok
\* whatever the CRC and timeout flags.
C16_BusErrorAborts ==
    op \in DriverOperations =>
        /\ \A i \in 1 .. Len(trace) : ~trace[i].ok => i = Len(trace)
        /\ ~AllOk(trace) => result.err = "Comms"
        /\ result.err = "Comms" => ~AllOk(trace)
        /\ (op = "check_receive" /\ args = TRUE /\ AllOk(trace)) => result.err = "Ok"

\* a call that issued several transactions and whose SetPacketType failed
C16_Witness ==
    /\ op \in DriverOperations
    /\ Len(trace) >= 2
    /\ trace[Len(trace)].cmd = "SetPacketType"
    /\ ~trace[Len(trace)].ok
    /\ result.err = "Comms"

\* C21: a successful start_receive issues, in this order,
\* SetBufferBaseAddress(0, 0), SetPacketParams with the bytes of the retained
\* Modem, SetRangingRole = Responder for the packet type Ranging only,
\* SetDioIrqParams with the mask RX_DONE, CRC_ERROR, RX_TX_TIMEOUT,
\* SYNCWORD_VALID, SYNCWORD_ERROR, HEADER_VALID, HEADER_ERROR,
\* PREAMBLE_DETECTED, then SetRx, the last write of the call, and the status
\* read; SetPacketParams is preceded by a SetPacketType when the packet type
\* changes and followed by the sync word accesses of an FLRC Modem with a
\* sync word.
C21_StartReceiveOrder ==
    (op = "start_receive" /\ result.err = "Ok") =>
        LET md == before.config.modem
            pt == PacketTypeOfModem(md)
            sync == md.fam = "Flrc" /\ md.sync_word_value # << >>
            ranging == pt = "Ranging"
        IN /\ Names(trace) =
                 << "SetBufferBaseAddress" >>
                 \o Opt(before.packet_type # pt, "SetPacketType")
                 \o << "SetPacketParams" >>
                 \o (IF sync THEN << "write_regs", "read_regs", "write_regs" >> ELSE << >>)
                 \o Opt(ranging, "SetRangingRole")
                 \o << "SetDioIrqParams", "SetRx", "GetStatus" >>
           /\ Entry(trace, "SetBufferBaseAddress").data = << 0, 0 >>
           /\ Entry(trace, "SetPacketParams").data = PacketParams(md)
           /\ ranging => Entry(trace, "SetRangingRole").data = << 0 >>
           /\ Entry(trace, "SetDioIrqParams").data =
                 IrqBytes({"RX_DONE", "CRC_ERROR", "RX_TX_TIMEOUT", "SYNCWORD_VALID",
                           "SYNCWORD_ERROR", "HEADER_VALID", "HEADER_ERROR",
                           "PREAMBLE_DETECTED"})
           /\ \A i \in 1 .. Len(trace) :
                 IsWrite(trace[i]) => i <= Len(trace) - 1
           /\ hal.state = "Rx"

\* a reception started under the packet type Ranging: the role is set
C21_Witness ==
    /\ op = "start_receive"
    /\ result.err = "Ok"
    /\ before.config.modem.fam = "Ranging"
    /\ Count(trace, "SetRangingRole") = 1
    /\ hal.state = "Rx"

\* C22 as stated: whenever a driver object exists, the packet type it records
\* is the packet type the chip holds, and a start_receive that writes
\* SetPacketParams without a SetPacketType finds the chip in the packet type
\* of the retained Modem the bytes are encoded for.
C22_RecordIsChipType ==
    /\ built => packet_type = hal.packet_type
    /\ (op = "start_receive" /\ Count(trace, "SetPacketType") = 0
                             /\ Count(trace, "SetPacketParams") = 1) =>
          before.hal.packet_type = PacketTypeOfModem(before.config.modem)

\* a read of the tolerance register followed by its write-back, at i and i + 1
TolerancePatch(tr, i, reg) ==
    /\ i + 1 <= Len(tr)
    /\ tr[i].kind = "read_regs"
    /\ tr[i].addr = LrSyncWordTolerance
    /\ tr[i].data = << reg >>
    /\ tr[i + 1].kind = "write_regs"
    /\ tr[i + 1].addr = LrSyncWordTolerance
    /\ Len(tr[i + 1].data) = 1
    /\ tr[i + 1].data[1] % 16 = 0
    /\ tr[i + 1].data[1] \div 16 = reg \div 16

TouchesTolerance(tr) == \E i \in 1 .. Len(tr) : tr[i].addr = LrSyncWordTolerance

\* C23: a successful set_syncword under the packet type FLRC writes the sync
\* word, then reads the tolerance register and writes it back with the low
\* four bits cleared and the high four bits as read; under GFSK and BLE it
\* neither reads nor writes the tolerance register; configure_modem with an
\* FLRC Modem carrying a sync word does the same after SetPacketParams.
C23_FlrcTolerancePatch ==
    /\ (op = "set_syncword" /\ result.err = "Ok") =>
          IF before.packet_type = "Flrc"
          THEN /\ Len(trace) = 3
               /\ trace[1].kind = "write_regs"
               /\ trace[1].addr = SyncwordSlot("Flrc", args.index)[1]
               /\ trace[1].data = args.value
               /\ TolerancePatch(trace, 2, before.hal.sync_tol)
               /\ hal.sync_tol = before.hal.sync_tol - (before.hal.sync_tol % 16)
          ELSE /\ before.packet_type \in {"Gfsk", "Ble"}
               /\ Len(trace) = 1
               /\ ~TouchesTolerance(trace)
               /\ hal.sync_tol = before.hal.sync_tol
    /\ (op = "start_receive" /\ result.err = "Ok") =>
          IF before.config.modem.fam = "Flrc" /\ before.config.modem.sync_word_value # << >>
          THEN \E i \in 1 .. Len(trace) :
                  /\ trace[i].cmd = "SetPacketParams"
                  /\ trace[i + 1].kind = "write_regs"
                  /\ trace[i + 1].addr = LrSyncWordBaseAddress1 + 1
                  /\ trace[i + 1].data = before.config.modem.sync_word_value
                  /\ TolerancePatch(trace, i + 2, before.hal.sync_tol)
          ELSE ~TouchesTolerance(trace)

\* a sync word set under FLRC on a register with bits in both nibbles
C23_Witness ==
    /\ op = "set_syncword"
    /\ result.err = "Ok"
    /\ before.packet_type = "Flrc"
    /\ before.hal.sync_tol = 165
    /\ hal.sync_tol = 160

\* C24: once construction has succeeded, whatever public operations follow
\* and whichever of their bus transactions fail, the packet type recorded by
\* the driver is never None, so get_received never reaches the
\* PacketType::None arm of get_packet_info.
C24_PacketTypeNeverNone ==
    /\ built => packet_type # "None"
    /\ op = "get_received" => before.packet_type # "None"

\* a packet fetched and decoded after a construction that succeeded
C24_Witness ==
    /\ built
    /\ op = "get_received"
    /\ result.err = "Ok"
    /\ before.packet_type \in PacketTypes \ {"None"}
    /\ trace[Len(trace)].cmd = "GetPacketStatus"

\* C25: get_interrupts returns the flags the chip held at the status read;
\* with clear it writes ClearIrqStatus with the bytes read, and nothing when
\* no flag was read, so the chip keeps every flag raised after the read and
\* loses only flags that were read; a flag is cleared only by a call that
\* returns it; without clear it never writes ClearIrqStatus and the chip keeps
\* every flag.
C25_ClearsWhatItRead ==
    op = "get_interrupts" =>
        LET read == before.hal.irq
            held == before.hal.irq \cup args.raised
        IN /\ trace[1].cmd = "GetIrqStatus"
           /\ result.err = "Ok" => result.val = read
           /\ Count(trace, "ClearIrqStatus") = IF args.clear /\ read # {} /\ trace[1].ok
                                               THEN 1 ELSE 0
           /\ Len(trace) = 1 + Count(trace, "ClearIrqStatus")
           /\ Len(trace) = 2 => trace[2].data = IrqBytes(read)
           /\ hal.irq = IF args.clear /\ result.err = "Ok" THEN held \ read ELSE held
           /\ held \ hal.irq # {} => (result.err = "Ok" /\ held \ hal.irq \subseteq result.val)

\* flags are read and cleared while the chip raises another one, which stays
C25_Witness ==
    /\ op = "get_interrupts"
    /\ args.clear
    /\ result.err = "Ok"
    /\ result.val = {"TX_DONE"}
    /\ args.raised = {"RX_TX_TIMEOUT"}
    /\ hal.irq = {"RX_TX_TIMEOUT"}
    /\ Count(trace, "ClearIrqStatus") = 1

\* check_transmit reports the end of the transmission: true or Timeout
ReportsCompletion ==
    \/ result.err = "Timeout"
    \/ result.err = "Ok" /\ result.val

\* C26 as stated: a check_transmit call issues at most three bus
\* transactions; when they all succeed it reports a completion (true or
\* Timeout) only once the chip has ended the transmission, and it leaves no
\* flag behind, so that the completion of a transmission is reported by one
\* call and the polls that follow return false until a new operation is
\* started.
C26_CompletionReportedOnce ==
    op = "check_transmit" =>
        /\ Len(trace) <= 3
        /\ AllOk(trace) =>
              /\ hal.irq = {}
              /\ ReportsCompletion => before.hal.state # "Tx"

=============================================================================
